---- MODULE Spec2Model ----
(***************************************************************************)
(* Product REST API (src/main.py): a table of Products with a NOT NULL     *)
(* and a UNIQUE(name) constraint, pydantic request schemas, and the five   *)
(* request handlers.  A column value or a payload field is one of          *)
(*   [k |-> "unset"]  the key is absent from the JSON body                 *)
(*   [k |-> "null"]   JSON null / Python None / SQL NULL                   *)
(*   [k |-> "val", v |-> x]                                                *)
(* Strings are sequences of one-character strings, so that str.strip() is  *)
(* computed and not assumed.  Prices are floats in the code; the model     *)
(* uses whole numbers of one price unit.                                   *)
(***************************************************************************)
EXTENDS Integers, Sequences, FiniteSets, TLC

VARIABLES products, last, sess

vars == <<products, last, sess>>

\* ------------------------------------------------------------------ bounds

\* Largest primary key the table hands out (the table holds at most MaxId rows).
MaxId == 2

\* Sessions (requests in flight at once) of the interleaved specification.
Sessions == {"s1", "s2"}

\* ------------------------------------------------------------------ values

Unset == [k |-> "unset"]
Null == [k |-> "null"]
Val(x) == [k |-> "val", v |-> x]

Fields == {"name", "price", "quantity", "description", "category"}

\* Request strings: empty, whitespace-only, plain.
NameInputs == {<< >>, <<" ">>, <<"a">>, <<"b">>}
TextInputs == {<<" ", " ">>, <<"d">>}
PriceInputs == {0, 1, 2}
QuantityInputs == {-1, 0, 1}

\* What a JSON body can carry under key f: null or a value.
Values(f) ==
    {Null} \cup
    CASE f = "name" -> {Val(s) : s \in NameInputs}
      [] f = "price" -> {Val(x) : x \in PriceInputs}
      [] f = "quantity" -> {Val(x) : x \in QuantityInputs}
      [] OTHER -> {Val(s) : s \in TextInputs}

\* The values of key f that pass validation and the table's constraints.
Plain(f) ==
    CASE f = "name" -> {Val(<<"a">>), Val(<<"b">>)}
      [] f = "price" -> {Val(1), Val(2)}
      [] f = "quantity" -> {Val(0), Val(1)}
      [] OTHER -> {Null, Val(<<"d">>)}

\* The body {} and the bodies with one more key than p.
Empty == [f \in Fields |-> Unset]
With(p, f) == {[p EXCEPT ![f] = v] : v \in Values(f)}
WithPlain(p, f) == {[p EXCEPT ![f] = v] : v \in Plain(f)}

\* Bodies of PUT /products/{id}: {}, every one-key patch, two-key patches
\* of plain values (every key paired with another), and one patch of all
\* five keys.
OneKey == UNION {With(Empty, f) : f \in Fields}
Pairs ==
    {<<"name", "price">>, <<"quantity", "description">>, <<"category", "name">>}
TwoKeys ==
    UNION {{[Empty EXCEPT ![pr[1]] = v, ![pr[2]] = w] : v \in Plain(pr[1]), w \in Plain(pr[2])}
           : pr \in Pairs}
AllKeys ==
    [name |-> Val(<<"b">>), price |-> Val(2), quantity |-> Val(1),
     description |-> Null, category |-> Val(<<"d">>)]
UpdatePayloads == {Empty, AllKeys} \cup OneKey \cup TwoKeys

\* Bodies of POST /products/: the bodies of plain required values, and one
\* body with one key dropped or replaced.
Complete ==
    [name : Plain("name"), price : Plain("price"), quantity : Plain("quantity"),
     description : {Unset}, category : {Unset, Val(<<"d">>)}]
Template ==
    [name |-> Val(<<"a">>), price |-> Val(1), quantity |-> Val(0),
     description |-> Val(<<"d">>), category |-> Unset]
CreatePayloads ==
    Complete \cup {[Template EXCEPT ![f] = Unset] : f \in Fields}
             \cup UNION {With(Template, f) : f \in Fields}

\* Commits whose failure is injected: a request is a body and whether the
\* database fails its commit.
Requests(bodies, failing) ==
    {[p |-> p, fault |-> FALSE] : p \in bodies} \cup {[p |-> p, fault |-> TRUE] : p \in failing}
CreateRequests == Requests(CreatePayloads, {Template, [Template EXCEPT !.name = Val(<<"b">>)]})
UpdateRequests == Requests(UpdatePayloads, {Empty} \cup WithPlain(Empty, "price"))

Payloads == CreatePayloads \cup UpdatePayloads

\* Path parameters: every key the table can hold and one it never holds.
ProductIds == 1 .. (MaxId + 1)

\* Query parameter price_gte: absent, negative, or a threshold.
Thresholds == {Unset} \cup {Val(x) : x \in {-1, 0, 1, 2, 3}}

\* ------------------------------------------------------------- validation

RECURSIVE LStrip(_)
LStrip(s) == IF s # << >> /\ Head(s) = " " THEN LStrip(Tail(s)) ELSE s

RECURSIVE RStrip(_)
RStrip(s) ==
    IF s # << >> /\ s[Len(s)] = " " THEN RStrip(SubSeq(s, 1, Len(s) - 1)) ELSE s

\* str.strip()
Strip(s) == RStrip(LStrip(s))

\* The validator without strip(): only the empty string is refused.
empty_string_not_allowed_unstripped(v) == v.k = "val" /\ v.v = << >>

\* The 'before' validator of name, description and category: TRUE when it
\* raises ValueError.
empty_string_not_allowed(v) == v.k = "val" /\ Strip(v.v) = << >>

\* ProductCreate: TRUE when the body validates.
ProductCreate(p) ==
    /\ p.name.k = "val" /\ ~empty_string_not_allowed(p.name) /\ Len(p.name.v) >= 1
    /\ p.price.k = "val" /\ p.price.v > 0
    /\ p.quantity.k = "val" /\ p.quantity.v >= 0
    /\ ~empty_string_not_allowed(p.description)
    /\ ~empty_string_not_allowed(p.category)

\* ProductUpdate: every field Optional, None accepted, a value constrained.
ProductUpdate(p) ==
    /\ ~empty_string_not_allowed(p.name)
    /\ p.name.k = "val" => Len(p.name.v) >= 1
    /\ p.price.k = "val" => p.price.v > 0
    /\ p.quantity.k = "val" => p.quantity.v >= 0
    /\ ~empty_string_not_allowed(p.description)
    /\ ~empty_string_not_allowed(p.category)

\* product.dict(): an absent Optional field takes its default None.
CreateDict(p) == [f \in Fields |-> IF p[f].k = "unset" THEN Null ELSE p[f]]

\* product.dict(exclude_unset=True): the keys the body carries.
UpdateData(p) == {f \in Fields : p[f].k # "unset"}

\* ------------------------------------------------------------------ table

\* The columns declared nullable.
NotNullOk_nullable(row) == TRUE

\* nullable=False on name, price and quantity.
NotNullOk(row) == row.name.k = "val" /\ row.price.k = "val" /\ row.quantity.k = "val"

\* The table without its unique constraint.
UniqueOk_unconstrained(store, id, row) == TRUE

\* UniqueConstraint('name'): no other row has this name.
UniqueOk(store, id, row) == \A j \in DOMAIN store \ {id} : store[j].name # row.name

\* TRUE when writing row as row id raises IntegrityError.
IntegrityError(store, id, row) == ~NotNullOk(row) \/ ~UniqueOk(store, id, row)

SetMax(S) == CHOOSE x \in S : \A y \in S : y <= x

\* INTEGER PRIMARY KEY: the next key is one more than the largest in the table.
NewId(store) == IF DOMAIN store = {} THEN 1 ELSE SetMax(DOMAIN store) + 1

Insert(store, id, row) == [j \in DOMAIN store \cup {id} |-> IF j = id THEN row ELSE store[j]]

Remove(store, id) == [j \in DOMAIN store \ {id} |-> store[j]]

\* ProductResponse: the row with its id.
ProductResponse(store, id) == [id |-> id, row |-> store[id]]

\* ---------------------------------------------------------------- responses

NoBody == [k |-> "none"]
Obj(x) == [k |-> "obj", v |-> x]
List(x) == [k |-> "list", v |-> x]

\* db: the request reached the handler, which used its database session.
Response(op, pid, status, detail, body, escaped) ==
    [op |-> op, pid |-> pid, status |-> status, detail |-> detail, body |-> body,
     escaped |-> escaped, db |-> TRUE]

NotFound(op, pid) == Response(op, pid, 404, "Product not found", NoBody, FALSE)

\* The framework rejects the request before the handler and its session run.
ValidationError(op, pid) ==
    [Response(op, pid, 422, "validation error", NoBody, FALSE) EXCEPT !.db = FALSE]

\* An exception no handler catches: the server answers 500 and the exception
\* leaves the handler.
Unhandled(op, pid) == Response(op, pid, 500, "Internal Server Error", NoBody, TRUE)

\* ----------------------------------------------------------------- handlers
\* Each handler as a function of the table and the request: the table it
\* leaves and the response it gives.  fault is TRUE when the commit raises
\* an exception that is not IntegrityError (the database is locked, an I/O
\* error, an integer outside the column's 64 bits).

Outcome(store, resp) == [store |-> store, resp |-> resp]

\* create_product without its except IntegrityError clause: the general
\* clause answers.
create_product_result_general(store, p, fault) ==
    IF ~ProductCreate(p) THEN Outcome(store, ValidationError("create", 0))
    ELSE IF fault \/ IntegrityError(store, NewId(store), CreateDict(p))
    THEN Outcome(store, Response("create", 0, 500,
                 "An error occurred while creating the product.", NoBody, FALSE))
    ELSE LET new == Insert(store, NewId(store), CreateDict(p))
         IN  Outcome(new, Response("create", NewId(store), 200, "",
                                   Obj(ProductResponse(new, NewId(store))), FALSE))

\* POST /products/
create_product_result(store, p, fault) ==
    IF ~ProductCreate(p) THEN Outcome(store, ValidationError("create", 0))
    ELSE IF fault
    THEN Outcome(store, Response("create", 0, 500,
                 "An error occurred while creating the product.", NoBody, FALSE))
    ELSE IF IntegrityError(store, NewId(store), CreateDict(p))
    THEN Outcome(store, Response("create", 0, 400,
                 "Product creation failed due to duplicate name.", NoBody, FALSE))
    ELSE LET new == Insert(store, NewId(store), CreateDict(p))
         IN  Outcome(new, Response("create", NewId(store), 200, "",
                                   Obj(ProductResponse(new, NewId(store))), FALSE))

\* GET /products/{product_id}
get_product_result(store, pid) ==
    IF pid \notin DOMAIN store THEN Outcome(store, NotFound("get", pid))
    ELSE Outcome(store, Response("get", pid, 200, "", Obj(ProductResponse(store, pid)), FALSE))

\* The setattr loop skipping None values ("if value is not None").
Changes_skip_none(loaded, p) ==
    [f \in Fields |-> IF p[f].k = "val" /\ p[f] # loaded[f] THEN p[f] ELSE Unset]

\* The setattr loop: the columns the session will write are the keys of
\* update_data whose value differs from the loaded one.
Changes(loaded, p) ==
    [f \in Fields |-> IF f \in UpdateData(p) /\ p[f] # loaded[f] THEN p[f] ELSE Unset]

Apply(row, changes) ==
    [f \in Fields |-> IF changes[f].k = "unset" THEN row[f] ELSE changes[f]]

\* db.commit(); db.refresh(db_product) of update_product and its except clause.
update_commit(store, pid, changes, fault) ==
    IF fault THEN Outcome(store, Unhandled("update", pid))
    ELSE IF pid \notin DOMAIN store THEN Outcome(store, Unhandled("update", pid))
    ELSE IF IntegrityError(store, pid, Apply(store[pid], changes))
    THEN Outcome(store, Response("update", pid, 400,
                 "Update failed due to duplicate name.", NoBody, FALSE))
    ELSE LET new == Insert(store, pid, Apply(store[pid], changes))
         IN  Outcome(new, Response("update", pid, 200, "",
                                   Obj(ProductResponse(new, pid)), FALSE))

\* PUT /products/{product_id}: the body is validated before the handler runs.
update_product_result(store, pid, p, fault) ==
    IF ~ProductUpdate(p) THEN Outcome(store, ValidationError("update", pid))
    ELSE IF pid \notin DOMAIN store THEN Outcome(store, NotFound("update", pid))
    ELSE update_commit(store, pid, Changes(store[pid], p), fault)

\* delete_product without db.commit(): the session is closed and the
\* DELETE rolled back.
delete_commit_uncommitted(store, pid, fault) ==
    IF fault THEN Outcome(store, Unhandled("delete", pid))
    ELSE Outcome(store,
                 Response("delete", pid, 200, "Product deleted successfully", NoBody, FALSE))

\* db.delete(db_product); db.commit() of delete_product: no except clause.
delete_commit(store, pid, fault) ==
    IF fault THEN Outcome(store, Unhandled("delete", pid))
    ELSE Outcome(Remove(store, pid),
                 Response("delete", pid, 200, "Product deleted successfully", NoBody, FALSE))

\* delete_product without its "if not db_product" check.
delete_product_result_unchecked(store, pid, fault) == delete_commit(store, pid, fault)

\* DELETE /products/{product_id}
delete_product_result(store, pid, fault) ==
    IF pid \notin DOMAIN store THEN Outcome(store, NotFound("delete", pid))
    ELSE delete_commit(store, pid, fault)

\* The filter with > for >=.
PriceFilter_strict(store, t) ==
    {j \in DOMAIN store : t.k = "val" => store[j].price.k = "val" /\ store[j].price.v > t.v}

\* query.filter(Product.price >= price_gte)
PriceFilter(store, t) ==
    {j \in DOMAIN store : t.k = "val" => store[j].price.k = "val" /\ store[j].price.v >= t.v}

\* query.all(): the selected rows in key order.
RECURSIVE Rows(_, _)
Rows(store, ids) ==
    IF ids = {} THEN << >>
    ELSE LET m == SetMax(ids)
         IN  Append(Rows(store, ids \ {m}), ProductResponse(store, m))

\* GET /products/?price_gte=
list_products_result(store, t) ==
    IF t.k = "val" /\ t.v < 0 THEN Outcome(store, ValidationError("list", 0))
    ELSE LET found == Rows(store, PriceFilter(store, t))
         IN  Outcome(store, Response("list", 0, 200, "",
                            List(IF found # << >> THEN found ELSE << >>), FALSE))

\* ------------------------------------------------------------------ actions

Idle == [op |-> "idle"]

\* What last keeps of a response: everything but the id and the body.
Seen(resp) ==
    [op |-> resp.op, status |-> resp.status, detail |-> resp.detail,
     escaped |-> resp.escaped]

\* The table exists and is empty; no request has been served.
Init ==
    /\ products = << >>
    /\ last = Seen(Response("init", 0, 0, "", NoBody, FALSE))
    /\ sess = [s \in Sessions |-> Idle]

\* The handler's outcome becomes the table and the response last seen.
Serve(out) ==
    LET o == out
    IN  /\ DOMAIN o.store \subseteq 1 .. MaxId
        /\ products' = o.store
        /\ last' = Seen(o.resp)

create_product ==
    \E q \in CreateRequests :
        /\ Serve(create_product_result(products, q.p, q.fault))
        /\ UNCHANGED sess

get_product ==
    \E pid \in ProductIds :
        /\ Serve(get_product_result(products, pid))
        /\ UNCHANGED sess

update_product ==
    \E pid \in ProductIds, q \in UpdateRequests :
        /\ Serve(update_product_result(products, pid, q.p, q.fault))
        /\ UNCHANGED sess

delete_product ==
    \E pid \in ProductIds, fault \in BOOLEAN :
        /\ Serve(delete_product_result(products, pid, fault))
        /\ UNCHANGED sess

list_products ==
    \E t \in Thresholds :
        /\ Serve(list_products_result(products, t))
        /\ UNCHANGED sess

\* Requests served one at a time.
Next ==
    \/ create_product
    \/ get_product
    \/ update_product
    \/ delete_product
    \/ list_products

Spec == Init /\ [][Next]_vars

\* ------------------------------------------------- interleaved requests
\* Every request has a session of its own (get_db).  update_product and
\* delete_product first query the row and later commit; requests of other
\* sessions may be served in between.  A create is one INSERT and commit.

\* Bodies of the interleaved requests: they differ in the name alone.
NamedBodies == {[Template EXCEPT !.name = v] : v \in Plain("name")}
NamePatches == {Empty} \cup With(Empty, "name")

create_product_now ==
    \E p \in NamedBodies :
        /\ Serve(create_product_result(products, p, FALSE))
        /\ UNCHANGED sess

\* update_product up to the setattr loop: the row is loaded and modified
\* in the session.
update_product_begin(s) ==
    \E pid \in ProductIds, p \in NamePatches :
        /\ sess[s] = Idle
        /\ IF ProductUpdate(p) /\ pid \in DOMAIN products
           THEN /\ sess' = [sess EXCEPT ![s] = [op |-> "update", pid |-> pid,
                                                changes |-> Changes(products[pid], p)]]
                /\ UNCHANGED <<products, last>>
           ELSE /\ Serve(update_product_result(products, pid, p, FALSE))
                /\ UNCHANGED sess

\* update_product from db.commit() on.
update_product_commit(s) ==
    /\ sess[s] # Idle
    /\ sess[s].op = "update"
    /\ Serve(update_commit(products, sess[s].pid, sess[s].changes, FALSE))
    /\ sess' = [sess EXCEPT ![s] = Idle]

\* delete_product up to db.delete(db_product).
delete_product_begin(s) ==
    \E pid \in ProductIds :
        /\ sess[s] = Idle
        /\ IF pid \in DOMAIN products
           THEN /\ sess' = [sess EXCEPT ![s] = [op |-> "delete", pid |-> pid]]
                /\ UNCHANGED <<products, last>>
           ELSE /\ Serve(delete_product_result(products, pid, FALSE))
                /\ UNCHANGED sess

\* delete_product from db.commit() on.
delete_product_commit(s) ==
    /\ sess[s] # Idle
    /\ sess[s].op = "delete"
    /\ Serve(delete_commit(products, sess[s].pid, FALSE))
    /\ sess' = [sess EXCEPT ![s] = Idle]

NextConc ==
    \/ create_product_now
    \/ \E s \in Sessions : update_product_begin(s)
    \/ \E s \in Sessions : update_product_commit(s)
    \/ \E s \in Sessions : delete_product_begin(s)
    \/ \E s \in Sessions : delete_product_commit(s)

SpecConc == Init /\ [][NextConc]_vars

\* ------------------------------------------------------------------ claims

Stored == DOMAIN products

DuplicateCreate == "Product creation failed due to duplicate name."
DuplicateUpdate == "Update failed due to duplicate name."

\* A stored Product other than row id carries name v.
NameTaken(v, id) == \E j \in Stored \ {id} : products[j].name = v

\* A string of no characters or of spaces only.
Blank(v) == v.k = "val" /\ \A i \in 1 .. Len(v.v) : v.v[i] = " "

\* C1: in every state reachable by any sequence and any interleaving of
\* create_product, update_product and delete_product requests, no two
\* stored Products have the same name.
UniqueNames ==
    \A i \in Stored, j \in Stored : i # j => products[i].name # products[j].name

\* C1 witness: two Products are stored, a request is still in flight, and
\* an interleaved update was refused for its name.
UniqueNamesWitness ==
    /\ Cardinality(Stored) = 2
    /\ \E s \in Sessions : sess[s] # Idle
    /\ last.op = "update" /\ last.status = 400

\* C2: a valid create whose name is the name of a stored Product, and a
\* valid update whose new name is the name of a different stored Product,
\* fail with status 400 and the operation's duplicate-name message, and
\* leave the table as it was (the commit failing for no other reason).
DuplicateRejected ==
    /\ \A p \in CreatePayloads :
         ProductCreate(p) /\ NameTaken(p.name, 0) =>
           LET out == create_product_result(products, p, FALSE)
           IN  /\ out.resp.status = 400
               /\ out.resp.detail = DuplicateCreate
               /\ out.store = products
    /\ \A pid \in Stored, p \in UpdatePayloads :
         ProductUpdate(p) /\ p.name.k = "val" /\ NameTaken(p.name, pid) =>
           LET out == update_product_result(products, pid, p, FALSE)
           IN  /\ out.resp.status = 400
               /\ out.resp.detail = DuplicateUpdate
               /\ out.store = products

\* C2 witness: a create was refused as a duplicate and the table still
\* holds Products.
DuplicateRejectedWitness ==
    /\ last.op = "create" /\ last.status = 400 /\ last.detail = DuplicateCreate
    /\ Stored # {}

\* C3: a successful update_product sets every field of the payload to the
\* supplied value, leaves the id and every field absent from the payload
\* as they were, and leaves every other stored Product unchanged.
PartialUpdate ==
    \A pid \in Stored, p \in UpdatePayloads :
        LET out == update_product_result(products, pid, p, FALSE)
        IN  out.resp.status = 200 =>
              /\ DOMAIN out.store = Stored
              /\ \A f \in Fields :
                    out.store[pid][f] = IF p[f].k = "unset" THEN products[pid][f] ELSE p[f]
              /\ \A j \in Stored \ {pid} : out.store[j] = products[j]
              /\ out.resp.body = Obj([id |-> pid, row |-> out.store[pid]])

\* C3 witness: an update succeeded on a table of two Products, one of which
\* now has a null description beside a category.
PartialUpdateWitness ==
    /\ last.op = "update" /\ last.status = 200
    /\ Cardinality(Stored) = 2
    /\ \E j \in Stored : products[j].description = Null /\ products[j].category # Null

\* C4 as stated: for an id no stored Product has and for every request
\* body, get_product, update_product and delete_product all respond 404
\* "Product not found" and leave the table unchanged.
NotFoundForEveryBody ==
    \A pid \in ProductIds \ Stored :
        /\ get_product_result(products, pid) = Outcome(products, NotFound("get", pid))
        /\ delete_product_result(products, pid, FALSE)
             = Outcome(products, NotFound("delete", pid))
        /\ \A p \in UpdatePayloads :
             update_product_result(products, pid, p, FALSE)
               = Outcome(products, NotFound("update", pid))

\* C4 amended: the same for every request body that passes validation (a
\* body that fails it is answered 422 before the lookup).
NotFoundForValidBody ==
    \A pid \in ProductIds \ Stored :
        /\ get_product_result(products, pid) = Outcome(products, NotFound("get", pid))
        /\ \A fault \in BOOLEAN :
             delete_product_result(products, pid, fault)
               = Outcome(products, NotFound("delete", pid))
        /\ \A q \in UpdateRequests :
             ProductUpdate(q.p) =>
               update_product_result(products, pid, q.p, q.fault)
                 = Outcome(products, NotFound("update", pid))
        /\ NotFound("get", pid).detail = NotFound("update", pid).detail
        /\ NotFound("get", pid).detail = NotFound("delete", pid).detail

\* C4 witness: an update of an id that is not stored was answered 404
\* while other Products are stored.
NotFoundWitness ==
    /\ last.op = "update" /\ last.status = 404 /\ last.detail = "Product not found"
    /\ Stored # {}

\* delete_product on a stored id answers "Product deleted successfully" and
\* removes exactly that Product; a get or a delete right after is refused.
DeleteRemoves ==
    \A pid \in Stored :
        LET out == delete_product_result(products, pid, FALSE)
        IN  /\ out.resp.status = 200
            /\ out.resp.detail = "Product deleted successfully"
            /\ DOMAIN out.store = Stored \ {pid}
            /\ \A j \in Stored \ {pid} : out.store[j] = products[j]
            /\ get_product_result(out.store, pid).resp = NotFound("get", pid)
            /\ delete_product_result(out.store, pid, FALSE)
                 = Outcome(out.store, NotFound("delete", pid))
\* While an id is not stored, a get and a delete of it are answered 404.
AbsentNotFound ==
    \A pid \in ProductIds \ Stored :
        /\ get_product_result(products, pid).resp = NotFound("get", pid)
        /\ delete_product_result(products, pid, FALSE).resp = NotFound("delete", pid)
\* An id that is not stored becomes stored by a create only.
OnlyCreateAdds ==
    \A pid \in ProductIds : pid \notin Stored /\ pid \in DOMAIN products' => last'.op = "create"

\* C5: delete_product on a stored id answers "Product deleted successfully"
\* and removes exactly that Product; with no create in between, every
\* following get_product or delete_product of the id is answered 404
\* "Product not found", so the second of two deletes of one id fails (the
\* commit failing for no other reason).
DeleteIsFinal == []DeleteRemoves /\ []AbsentNotFound /\ [][OnlyCreateAdds]_vars

\* C5 witness: a delete succeeded and left another Product stored.
DeleteWitness ==
    /\ last.op = "delete" /\ last.status = 200
    /\ last.detail = "Product deleted successfully"
    /\ Stored # {}

Range(seq) == {seq[i] : i \in 1 .. Len(seq)}

\* C6: list_products(price_gte=T), T >= 0, returns exactly the stored
\* Products with price >= T, each once; without a threshold it returns all
\* of them; the result is a sequence, empty when nothing qualifies; the
\* table is unchanged.
ListFilter ==
    \A t \in Thresholds :
        (t.k = "val" => t.v >= 0) =>
          LET out == list_products_result(products, t)
              want == {j \in Stored : t.k = "val" => products[j].price.v >= t.v}
          IN  /\ out.resp.status = 200
              /\ out.resp.body.k = "list"
              /\ Range(out.resp.body.v) = {[id |-> j, row |-> products[j]] : j \in want}
              /\ Len(out.resp.body.v) = Cardinality(want)
              /\ out.store = products

\* C6 witness: a listing was served from a table holding a Product priced
\* 1 and a Product priced 2, so that a threshold of 2 selects one of them.
ListFilterWitness ==
    /\ last.op = "list" /\ last.status = 200
    /\ \E i \in Stored, j \in Stored : products[i].price = Val(1) /\ products[j].price = Val(2)

\* A body the schema must refuse, said without the code's validators.
Rejectable(p) ==
    \/ p.price.k = "val" /\ p.price.v <= 0
    \/ p.quantity.k = "val" /\ p.quantity.v < 0
    \/ Blank(p.name) \/ Blank(p.description) \/ Blank(p.category)
Incomplete(p) == p.name.k = "unset" \/ p.price.k = "unset" \/ p.quantity.k = "unset"
Rejected(out) == out.resp.status = 422 /\ ~out.resp.db /\ out.store = products

\* C7: a create or update with price <= 0, quantity < 0, or a blank name,
\* description or category, and a create without name, price or quantity,
\* is answered 422 without the handler touching the database, and the
\* table is unchanged.
ValidationRejects ==
    /\ \A q \in CreateRequests :
         Rejectable(q.p) \/ Incomplete(q.p) =>
           Rejected(create_product_result(products, q.p, q.fault))
    /\ \A pid \in ProductIds, q \in UpdateRequests :
         Rejectable(q.p) => Rejected(update_product_result(products, pid, q.p, q.fault))

\* C7 witness: an update of a stored table was answered 422.
ValidationRejectsWitness ==
    /\ last.op = "update" /\ last.status = 422
    /\ Stored # {}

\* C8: every stored Product has price > 0 and quantity >= 0, whatever the
\* requests, updates with explicit nulls included.
PriceAndQuantity ==
    \A j \in Stored :
        /\ products[j].price.k = "val" /\ products[j].price.v > 0
        /\ products[j].quantity.k = "val" /\ products[j].quantity.v >= 0

\* C8 witness: an update of the only stored Product was refused by a
\* constraint, which with one row can only be a null in a NOT NULL column.
PriceAndQuantityWitness ==
    /\ Cardinality(Stored) = 1
    /\ last.op = "update" /\ last.status = 400

\* C9 as stated: no exception raised by a commit leaves the handler of
\* create_product, update_product or delete_product.
NoExceptionEscapes == ~last.escaped

\* C10 as stated: update_product answers 400 "Update failed due to
\* duplicate name." only when the payload supplies the name of a different
\* stored Product.
DuplicateOnlyOnCollision ==
    \A pid \in Stored, q \in UpdateRequests :
        LET out == update_product_result(products, pid, q.p, q.fault)
        IN  out.resp.status = 400 /\ out.resp.detail = DuplicateUpdate =>
              q.p.name.k = "val" /\ NameTaken(q.p.name, pid)

====
